---- MODULE Spec2Model ----
(***************************************************************************)
(* Model of the clash.gg sell bot: ClashBot (credential bootstrap and      *)
(* refresh, listing poll, sale answering, trade-offer dispatch, dedup map  *)
(* trackSentOffers), RefreshClashCookies (cookie filtering / unification)  *)
(* and SteamHandler (the inventory callback of sendTradeOffer, the         *)
(* newOffer listener).                                                     *)
(*                                                                         *)
(* Spec is the bot as a whole; FairSpec adds that a timer that is set      *)
(* fires. SteamSpec runs the SteamHandler callbacks on any inventory and   *)
(* any incoming offer, CookieSpec runs refreshCookie on any cookie list.   *)
(*                                                                         *)
(* One action is one run-to-completion task of the JavaScript event loop:  *)
(* a timer callback or the continuation of an awaited call, together with  *)
(* the promise continuations (microtasks) it triggers, up to the next      *)
(* point where every pending continuation waits for the network, the       *)
(* browser or a timer. Time is not modelled: a timer that is set may fire  *)
(* at any later point, and a pending call may settle at any later point.   *)
(***************************************************************************)
EXTENDS Integers, Sequences, FiniteSets, TLC

\* Number of checkDeposits cycles started over a run (init's plus the ticks').
MaxPolls == 3

\* config.steam_id, and the steam id of some other seller.
steamId == "S"
OtherSteamId == "X"

\* JavaScript's undefined (a missing object field, a function without return).
Undefined == "undefined"

ListingIds == {"L1", "L2"}
ListingOrder == <<"L1", "L2">>

\* The item and the buyer of a listing, as clash.gg reports them.
ItemName(id) == IF id = "L1" THEN "AK-47" ELSE "AWP"
AssetId(id) == IF id = "L1" THEN "A1" ELSE "A2"
Tradelink(id) == IF id = "L1" THEN "D1" ELSE "D2"

(***************************************************************************)
(* RefreshClashCookies                                                     *)
(***************************************************************************)

\* Text that the code searches is a sequence of characters.
ClashGG == <<"c", "l", "a", "s", "h", ".", "g", "g">>

\* String.prototype.includes
Includes(s, sub) ==
    \E i \in 0..(Len(s) - Len(sub)) : SubSeq(s, i + 1, i + Len(sub)) = sub

RECURSIVE filterFrom(_, _, _)
filterFrom(cookies, index, cookieArray) ==
    IF index > Len(cookies) THEN cookieArray
    ELSE filterFrom(cookies, index + 1,
                    IF Includes(cookies[index].domain, ClashGG)
                    THEN Append(cookieArray, cookies[index])
                    ELSE cookieArray)

filterCookies(cookies) == filterFrom(cookies, 1, <<>>)

\* Variant of unifyFrom: a separator after every cookie.
RECURSIVE unifyFrom_TrailingSeparator(_, _, _)
unifyFrom_TrailingSeparator(cookies, index, unifiedCookie) ==
    IF index > Len(cookies) THEN unifiedCookie
    ELSE unifyFrom_TrailingSeparator(cookies, index + 1,
             unifiedCookie \o cookies[index].name \o "=" \o cookies[index].value \o "; ")

RECURSIVE unifyFrom(_, _, _)
unifyFrom(cookies, index, unifiedCookie) ==
    IF index > Len(cookies) THEN unifiedCookie
    ELSE unifyFrom(cookies, index + 1,
                   unifiedCookie \o cookies[index].name \o "=" \o cookies[index].value
                       \o (IF index < Len(cookies) THEN "; " ELSE ""))

unifyCookies(cookies) == unifyFrom(cookies, 1, "")

\* Cookies the browser may hold.
SessionCookie == [domain |-> ClashGG, name |-> "sid", value |-> "1"]
CfCookie == [domain |-> <<".">> \o ClashGG, name |-> "cf", value |-> "x"]
SteamCookie == [domain |-> <<"s", "t", "e", "a", "m">>, name |-> "sl", value |-> "9"]

\* What getCookies resolves to: the browser's cookies, or undefined
\* (failed = TRUE) when the browser call failed: the catch block logs and the
\* function falls through without a return value.
BrowserResults ==
    { [failed |-> TRUE, cookies |-> <<>>] } \cup
    { [failed |-> FALSE, cookies |-> c] :
        c \in { <<SteamCookie>>, <<SteamCookie, SessionCookie, CfCookie>> } }

\* refreshCookie: filterCookies iterates over its argument, which throws a
\* TypeError on undefined; otherwise the unified string is returned.
refreshCookie(result) ==
    IF result.failed
    THEN [threw |-> TRUE, value |-> ""]
    ELSE [threw |-> FALSE, value |-> unifyCookies(filterCookies(result.cookies))]

(***************************************************************************)
(* ClashBot: inputs                                                        *)
(***************************************************************************)

Statuses == {"ASKED", "ANSWERED", "SOLD"}

\* A record of the listings response for listing id. seller = Undefined is a
\* record without a seller object, inspect = Undefined one without
\* item.inspect. The fields stand for deposit.id, deposit.seller.steamId,
\* deposit.status, deposit.item.name, deposit.item.inspect.a and
\* deposit.buyerTradelink.
Deposit(id, seller, status, inspect) ==
    [id |-> id, seller |-> seller, status |-> status, name |-> ItemName(id),
     inspect |-> inspect, buyerTradelink |-> Tradelink(id)]

\* The records the endpoint may return for a listing. L2 is a well-formed
\* listing of the account in any status; L1 is any record: of the account or
\* of another seller, well-formed or not.
DepositsOf(id) ==
    { Deposit(id, steamId, status, AssetId(id)) : status \in Statuses } \cup
    IF id = "L1"
    THEN { Deposit(id, OtherSteamId, status, AssetId(id)) : status \in Statuses } \cup
         { Deposit(id, Undefined, "ANSWERED", AssetId(id)),
           Deposit(id, steamId, "ANSWERED", Undefined) }
    ELSE {}

RECURSIVE SnapshotsFrom(_)
SnapshotsFrom(index) ==
    IF index > Len(ListingOrder) THEN { <<>> }
    ELSE LET rest == SnapshotsFrom(index + 1)
         IN  rest \cup { <<d>> \o r : d \in DepositsOf(ListingOrder[index]), r \in rest }

\* The arrays the listings endpoint may return: at most one record per listing.
Snapshots == SnapshotsFrom(1)

\* The body an error response may carry; the code never reads it.
ErrorBodies ==
    { <<>>, <<Deposit("L2", steamId, "ASKED", AssetId("L2")),
              Deposit("L1", steamId, "ANSWERED", AssetId("L1"))>> }

\* Outcomes of the listings request: a transport/auth error or an array.
ListingResponses ==
    { [failed |-> TRUE, data |-> b] : b \in ErrorBodies } \cup
    { [failed |-> FALSE, data |-> s] : s \in Snapshots }

\* Outcomes of the access-token request.
TokenResponses ==
    { [failed |-> TRUE, accessToken |-> ""] } \cup
    { [failed |-> FALSE, accessToken |-> t] : t \in {"t1"} }

(***************************************************************************)
(* ClashBot: state                                                         *)
(***************************************************************************)

VARIABLES
    cookie,           \* this.cookie
    accessToken,      \* this.accessToken
    initPc,           \* the call init() awaits, "done" or "rejected"
    cookiePending,    \* a cookie timer tick awaits its refreshCookie call
    tokenPending,     \* a token timer tick awaits its access-token request
    polls,            \* checkDeposits cycles started so far
    inFlight,         \* listings requests of timer cycles not yet answered
    trackSentOffers,  \* the dedup map, as id -> (key present)
    releaseTimers,    \* pending setTimeout(stopTracking) callbacks per id
    offers,           \* fate of the latest sendTradeOffer call per listing
    alive,            \* the node process runs
    answering,        \* a confirm request awaits its response
    accepting,        \* incoming offers whose accept callback is pending
    event             \* the task that ran last and the calls it made

vars == <<cookie, accessToken, initPc, cookiePending, tokenPending, polls,
          inFlight, trackSentOffers, releaseTimers, offers, alive, answering,
          accepting, event>>

\* failed: the external call whose result the task received failed.
Event(task, failed, deposits, calls) ==
    [task |-> task, failed |-> failed, deposits |-> deposits, calls |-> calls]

\* new ClashBot(steamHandler): the constructor runs init() up to its first
\* suspension, inside getCookie -> refreshCookie -> getCookies -> CDP().
Init ==
    /\ cookie = ""
    /\ accessToken = ""
    /\ initPc = "getCookie"
    /\ cookiePending = FALSE
    /\ tokenPending = FALSE
    /\ polls = 0
    /\ inFlight = 0
    /\ trackSentOffers = [id \in ListingIds |-> FALSE]
    /\ releaseTimers = [id \in ListingIds |-> 0]
    /\ offers = [id \in ListingIds |-> "none"]
    /\ alive = TRUE
    /\ answering = FALSE
    /\ accepting = {}
    /\ event = Event("constructor", FALSE, <<>>, <<[op |-> "getCookies"]>>)

(***************************************************************************)
(* ClashBot: credentials                                                   *)
(***************************************************************************)

\* Variant of getCookie: the value is stored even when the refresh threw.
getCookie_StoreOnFailure(current, result) ==
    LET r == refreshCookie(result)
    IN  [threw |-> r.threw, cookie |-> r.value]

\* getCookie: the assignment to this.cookie happens only when refreshCookie
\* resolves; when it rejects, getCookie rejects too (it has no try/catch).
getCookie(current, result) ==
    LET r == refreshCookie(result)
    IN  IF r.threw
        THEN [threw |-> TRUE, cookie |-> current]
        ELSE [threw |-> FALSE, cookie |-> r.value]

\* getAccessToken, after the response: the catch block logs and keeps the
\* stored token.
getAccessToken(current, response) ==
    IF response.failed THEN current ELSE response.accessToken

\* The requests, with the credentials they read when they are issued.
TokenRequest(c) == [op |-> "getAccessToken", cookie |-> c]
ListingsRequest(t, c) == [op |-> "getActiveDeposits", accessToken |-> t, cookie |-> c]

Creds == <<cookie, accessToken>>
Dedup == <<trackSentOffers, releaseTimers, offers>>
Ticks == <<cookiePending, tokenPending>>
Cycles == <<polls, inFlight>>

\* init, line 75 -> 76: the awaited getCookie settles. Resolved: init goes on
\* and getAccessToken issues its request with the cookie just stored.
\* Rejected: init rejects, and nothing handles the rejection of the promise
\* the constructor dropped: node warns or terminates, depending on its
\* unhandled-rejections mode.
InitCookieFetched ==
    /\ alive /\ initPc = "getCookie"
    /\ \E result \in BrowserResults :
         LET got == getCookie(cookie, result)
         IN  /\ cookie' = got.cookie
             /\ IF got.threw
                THEN /\ initPc' = "rejected"
                     /\ alive' \in BOOLEAN
                     /\ event' = Event("initGetCookie", TRUE, <<>>, <<>>)
                ELSE /\ initPc' = "getAccessToken"
                     /\ alive' = alive
                     /\ event' = Event("initGetCookie", FALSE, <<>>,
                                       <<TokenRequest(got.cookie)>>)
    /\ UNCHANGED <<accepting, answering, accessToken, Ticks, Cycles, Dedup>>

\* init, line 76 -> 77: the awaited getAccessToken settles (it never rejects)
\* and checkDeposits issues the listings request.
InitTokenFetched ==
    /\ alive /\ initPc = "getAccessToken"
    /\ \E response \in TokenResponses :
         /\ accessToken' = getAccessToken(accessToken, response)
         /\ event' = Event("initGetAccessToken", response.failed, <<>>,
                           <<ListingsRequest(accessToken', cookie)>>)
    /\ initPc' = "checkDeposits"
    /\ polls' = polls + 1
    /\ UNCHANGED <<accepting, answering, cookie, Ticks, inFlight, Dedup, alive>>

\* updateCookie's interval callback starts a getCookie call. The interval
\* (hours) far exceeds the duration of a call: one call per timer at a time.
CookieTick ==
    /\ alive /\ initPc = "done" /\ ~cookiePending
    /\ cookiePending' = TRUE
    /\ event' = Event("cookieTick", FALSE, <<>>, <<[op |-> "getCookies"]>>)
    /\ UNCHANGED <<accepting, answering, Creds, initPc, tokenPending, Cycles, Dedup, alive>>

\* The getCookie call of a tick settles; a rejection is unhandled.
CookieRefreshed ==
    /\ alive /\ cookiePending
    /\ \E result \in BrowserResults :
         LET got == getCookie(cookie, result)
         IN  /\ cookie' = got.cookie
             /\ IF got.threw THEN alive' \in BOOLEAN ELSE alive' = alive
             /\ event' = Event("cookieRefreshed", got.threw, <<>>, <<>>)
    /\ cookiePending' = FALSE
    /\ UNCHANGED <<accepting, answering, accessToken, initPc, tokenPending, Cycles, Dedup>>

\* updateAccessToken's interval callback issues the token request.
TokenTick ==
    /\ alive /\ initPc = "done" /\ ~tokenPending
    /\ tokenPending' = TRUE
    /\ event' = Event("tokenTick", FALSE, <<>>, <<TokenRequest(cookie)>>)
    /\ UNCHANGED <<accepting, answering, Creds, initPc, cookiePending, Cycles, Dedup, alive>>

\* The token request of a tick settles.
TokenRefreshed ==
    /\ alive /\ tokenPending
    /\ \E response \in TokenResponses :
         /\ accessToken' = getAccessToken(accessToken, response)
         /\ event' = Event("tokenRefreshed", response.failed, <<>>, <<>>)
    /\ tokenPending' = FALSE
    /\ UNCHANGED <<accepting, answering, cookie, initPc, cookiePending, Cycles, Dedup, alive>>

(***************************************************************************)
(* ClashBot: checkDeposits                                                 *)
(***************************************************************************)

\* Variant of getActiveDeposits: the body of an error response is returned.
getActiveDeposits_ErrorBody(response) == response.data

\* getActiveDeposits: a failed request is logged and yields the empty array.
getActiveDeposits(response) ==
    IF response.failed THEN <<>> ELSE response.data

\* Variant of IsOwnDeposit: the seller filter left out.
IsOwnDeposit_AnySeller(d) == TRUE

\* Line 92.
IsOwnDeposit(d) == d.seller = steamId

\* Variant of ShouldSendOffer: the dedup test left out.
ShouldSendOffer_NoDedup(d, track) == d.status = "ANSWERED"

\* Line 95, second branch.
ShouldSendOffer(d, track) == d.status = "ANSWERED" /\ ~track[d.id]

\* Variant of AnswerSaleCall: the headers hold the credentials as they were
\* when the bot was constructed.
AnswerSaleCall_AtConstruction(itemID) ==
    [op |-> "answerSale", itemID |-> itemID, accessToken |-> "", cookie |-> ""]

\* Lines 166-174: the confirm request for a listing; the headers are built
\* from this.accessToken and this.cookie when answerSale runs.
AnswerSaleCall(itemID) ==
    [op |-> "answerSale", itemID |-> itemID,
     accessToken |-> accessToken, cookie |-> cookie]

\* Variant of SendTradeOfferCall: tradelink and asset id in each other's place.
SendTradeOfferCall_Swapped(d) ==
    [op |-> "sendTradeOffer", buyerTradelink |-> d.inspect,
     assetId |-> d.buyerTradelink, source |-> "clash",
     transactionData |-> [item_name |-> d.name]]

\* Lines 97-118: the arguments handed to steamHandler.sendTradeOffer.
SendTradeOfferCall(d) ==
    [op |-> "sendTradeOffer", buyerTradelink |-> d.buyerTradelink,
     assetId |-> d.inspect, source |-> "clash",
     transactionData |-> [item_name |-> d.name]]

\* Lines 130-132.
SetTimeoutCall(id) == [op |-> "setTimeout", id |-> id]

\* Variant of MarkSent: the entry is not set.
MarkSent_Skipped(track, id) == track

\* Line 124.
MarkSent(track, id) == [track EXCEPT ![id] = TRUE]

\* Variant of stopTracking: the entry is not deleted.
stopTracking_Kept(track, id) == track

\* Lines 185-188.
stopTracking(track, id) == [track EXCEPT ![id] = FALSE]

\* Variant of AnswerBranch: no answer while a dedup entry is live.
AnswerBranch_UnlessTracked(st, d) ==
    IF st.track[d.id] THEN st
    ELSE [st EXCEPT !.calls = Append(@, AnswerSaleCall(d.id)),
                    !.answering = TRUE]

\* Variant of AnswerBranch: no confirm request while one is pending.
AnswerBranch_UnlessPending(st, d) ==
    IF st.answering THEN st
    ELSE [st EXCEPT !.calls = Append(@, AnswerSaleCall(d.id)),
                    !.answering = TRUE]

\* Line 94: answerSale issues its request and the handler suspends on it; the
\* handler does nothing after the await, and answerSale catches its errors.
AnswerBranch(st, d) ==
    [st EXCEPT !.calls = Append(@, AnswerSaleCall(d.id)),
               !.answering = TRUE]

\* Variant of DispatchBranch: no release timer is set.
DispatchBranch_NoTimer(st, d) ==
    [st EXCEPT !.calls = @ \o <<SendTradeOfferCall(d)>>,
               !.offers[d.id] = "loading",
               !.track = MarkSent(@, d.id)]

\* Lines 96-132, run without suspension: sendTradeOffer is not awaited, it
\* starts the inventory load and returns.
DispatchBranch(st, d) ==
    [st EXCEPT !.calls = @ \o <<SendTradeOfferCall(d), SetTimeoutCall(d.id)>>,
               !.offers[d.id] = "loading",
               !.track = MarkSent(@, d.id),
               !.timers[d.id] = @ + 1]

\* Reading a field of an undefined object throws a TypeError: at line 92
\* deposit.seller.steamId, at line 98 deposit.item.inspect.a.
Throws(d, track) ==
    \/ d.seller = Undefined
    \/ IsOwnDeposit(d) /\ d.status # "ASKED" /\ ShouldSendOffer(d, track)
          /\ d.inspect = Undefined

\* The callback of deposits.forEach, lines 90-138. The catch at line 135
\* logs what the handler throws.
handleDeposit(st, d) ==
    IF Throws(d, st.track) THEN st
    ELSE IF ~IsOwnDeposit(d) THEN st
    ELSE IF d.status = "ASKED" THEN AnswerBranch(st, d)
    ELSE IF ShouldSendOffer(d, st.track) THEN DispatchBranch(st, d)
    ELSE st

\* Variant of forEach: a throwing handler ends the loop.
RECURSIVE forEach_AbortOnThrow(_, _, _)
forEach_AbortOnThrow(st, deposits, index) ==
    IF index > Len(deposits) THEN st
    ELSE IF Throws(deposits[index], st.track) THEN st
    ELSE forEach_AbortOnThrow(handleDeposit(st, deposits[index]), deposits, index + 1)

RECURSIVE forEach(_, _, _)
forEach(st, deposits, index) ==
    IF index > Len(deposits) THEN st
    ELSE forEach(handleDeposit(st, deposits[index]), deposits, index + 1)

\* checkDeposits after the listings response: every handler runs up to its
\* first await before the next one starts, all within one task.
\* What the handlers of a cycle read and write, before the first one runs.
HandlerState ==
    [track |-> trackSentOffers, timers |-> releaseTimers, offers |-> offers,
     answering |-> answering, calls |-> <<>>]

checkDeposits(response) == forEach(HandlerState, getActiveDeposits(response), 1)

Processed(task, response) ==
    LET st == checkDeposits(response)
    IN  /\ trackSentOffers' = st.track
        /\ releaseTimers' = st.timers
        /\ offers' = st.offers
        /\ answering' = st.answering
        /\ event' = Event(task, response.failed, getActiveDeposits(response), st.calls)

\* init, line 77 -> 80: the awaited checkDeposits resolves once forEach has
\* returned, and init starts the three interval timers.
InitDepositsFetched ==
    /\ alive /\ initPc = "checkDeposits"
    /\ \E response \in ListingResponses : Processed("initCheckDeposits", response)
    /\ initPc' = "done"
    /\ UNCHANGED <<accepting, Creds, Ticks, Cycles, alive>>

\* periodicCheckDeposits' interval callback: checkDeposits issues the
\* listings request, whether or not earlier cycles have finished.
PollTick ==
    /\ alive /\ initPc = "done" /\ polls < MaxPolls
    /\ polls' = polls + 1
    /\ inFlight' = inFlight + 1
    /\ event' = Event("pollTick", FALSE, <<>>, <<ListingsRequest(accessToken, cookie)>>)
    /\ UNCHANGED <<accepting, answering, Creds, initPc, Ticks, Dedup, alive>>

\* The listings request of a timer cycle settles.
DepositsFetched ==
    /\ alive /\ inFlight > 0
    /\ \E response \in ListingResponses : Processed("checkDeposits", response)
    /\ inFlight' = inFlight - 1
    /\ UNCHANGED <<accepting, Creds, initPc, Ticks, polls, alive>>

\* The timer set at line 130 fires.
ReleaseTimer(id) ==
    /\ alive /\ releaseTimers[id] > 0
    /\ trackSentOffers' = stopTracking(trackSentOffers, id)
    /\ releaseTimers' = [releaseTimers EXCEPT ![id] = @ - 1]
    /\ event' = Event("stopTracking", FALSE, <<>>, <<[op |-> "stopTracking", id |-> id]>>)
    /\ UNCHANGED <<accepting, answering, Creds, initPc, Ticks, Cycles, offers, alive>>

\* A confirm request settles, lines 174-177: answerSale logs the error it
\* catches, and the handler that awaited it ends. Requests of other
\* handlers may still be pending.
AnswerSettled ==
    /\ alive /\ answering
    /\ answering' \in BOOLEAN
    /\ \E error \in BOOLEAN :
         event' = Event("answerSale", error, <<>>, <<>>)
    /\ UNCHANGED <<accepting, Creds, initPc, Ticks, Cycles, Dedup, alive>>

(***************************************************************************)
(* SteamHandler.sendTradeOffer, as far as the fate of the offer goes       *)
(***************************************************************************)

\* The getInventoryContents callback, lines 380-417: an error is logged and
\* the offer is dropped; otherwise the offer is built and offer.send called.
InventoryLoaded(id) ==
    /\ alive /\ offers[id] = "loading"
    /\ \E error \in BOOLEAN :
         /\ offers' = [offers EXCEPT ![id] = IF error THEN "failed" ELSE "sending"]
         /\ event' = Event("inventoryLoaded", error, <<>>, <<>>)
    /\ UNCHANGED <<accepting, answering, Creds, initPc, Ticks, Cycles, trackSentOffers, releaseTimers,
                   alive>>

\* The offer.send callback, lines 410-416: the error is logged.
OfferSendDone(id) ==
    /\ alive /\ offers[id] = "sending"
    /\ \E error \in BOOLEAN :
         /\ offers' = [offers EXCEPT ![id] = IF error THEN "failed" ELSE "sent"]
         /\ event' = Event("offerSendDone", error, <<>>, <<>>)
    /\ UNCHANGED <<accepting, answering, Creds, initPc, Ticks, Cycles, trackSentOffers, releaseTimers,
                   alive>>

Next ==
    \/ InitCookieFetched
    \/ InitTokenFetched
    \/ InitDepositsFetched
    \/ CookieTick
    \/ CookieRefreshed
    \/ TokenTick
    \/ TokenRefreshed
    \/ PollTick
    \/ DepositsFetched
    \/ \E id \in ListingIds : ReleaseTimer(id)
    \/ AnswerSettled
    \/ \E id \in ListingIds : InventoryLoaded(id)
    \/ \E id \in ListingIds : OfferSendDone(id)

Spec == Init /\ [][Next]_vars

\* A timer that is set fires: the callback of setTimeout (line 130) runs once
\* its delay has passed, as long as the process runs.
FairSpec == Spec /\ \A id \in ListingIds : WF_vars(ReleaseTimer(id))

(***************************************************************************)
(* SteamHandler: the inventory callback of sendTradeOffer and the newOffer *)
(* listener, for any inventory and any incoming offer                      *)
(***************************************************************************)

\* Longest inventory, and most items on one side of an incoming offer.
MaxInventory == 2
MaxItems == 1

AssetIds == { AssetId(id) : id \in ListingIds }

\* Sequences over S of length at most n.
SeqsUpTo(S, n) == UNION { [1..k -> S] : k \in 0..n }

\* An inventory item: its asset id and pos, its position as Steam reports it.
InventoryItems == [assetid : AssetIds, pos : 1..MaxInventory]

\* Inventories: no asset id occurs twice.
Inventories ==
    { inv \in SeqsUpTo(InventoryItems, MaxInventory) :
        \A i, j \in DOMAIN inv : i # j => inv[i].assetid # inv[j].assetid }

UndefinedItem == [assetid |-> Undefined, pos |-> 0]

\* inventory[index] of JavaScript: indices count from 0, and an index outside
\* the array yields undefined.
ItemAt(inventory, index) ==
    IF index + 1 \in DOMAIN inventory THEN inventory[index + 1] ELSE UndefinedItem

\* Lines 392-399: for every item whose assetid is the requested one,
\* offer.addMyItem(inventory[item.pos - 1]).
RECURSIVE addMatching(_, _, _, _)
addMatching(inventory, assetId, index, added) ==
    IF index > Len(inventory) THEN added
    ELSE addMatching(inventory, assetId, index + 1,
                     IF assetId = inventory[index].assetid
                     THEN Append(added, ItemAt(inventory, inventory[index].pos - 1))
                     ELSE added)

\* Lines 431-439, in milliseconds.
getCancelTime(source) ==
    IF source = "empire" THEN 12 * 60 * 60 * 1000
    ELSE IF source = "clash" THEN 10 * 60 * 1000
    ELSE 60 * 60 * 1000

\* Lines 386-416: the calls made on the offer manager and on the offer. What
\* addMyItem does with undefined is the library's business: it may throw
\* (addThrows), which ends the callback before offer.send.
OfferCalls(buyerTradelink, added, source, transactionData, addThrows) ==
    LET adds == [i \in 1..Len(added) |-> [op |-> "addMyItem", item |-> added[i]]]
        undefs == { i \in 1..Len(added) : added[i] = UndefinedItem }
        first == CHOOSE i \in undefs : \A j \in undefs : i <= j
    IN  IF addThrows /\ undefs # {}
        THEN <<[op |-> "createOffer", buyerTradelink |-> buyerTradelink]>>
                 \o SubSeq(adds, 1, first)
        ELSE <<[op |-> "createOffer", buyerTradelink |-> buyerTradelink]>>
                 \o adds
                 \o <<[op |-> "data", key |-> "cancelTime",
                       value |-> getCancelTime(source)],
                      [op |-> "data", key |-> "transactionData",
                       value |-> transactionData],
                      [op |-> "send"]>>

\* A task of the SteamHandler: its arguments and the calls it made.
SteamEvent(task, args, calls) == [task |-> task, args |-> args, calls |-> calls]

\* The getInventoryContents callback of sendTradeOffer, lines 380-417, for
\* the arguments checkDeposits passes for some listing.
SendTradeOfferLoaded ==
    /\ \E id \in ListingIds, inventory \in Inventories, error, addThrows \in BOOLEAN :
         LET assetId == AssetId(id)
             added == addMatching(inventory, assetId, 1, <<>>)
         IN  /\ addThrows => (~error /\ UndefinedItem \in { added[i] : i \in DOMAIN added })
             /\ event' = SteamEvent("sendTradeOffer",
                   [assetId |-> assetId, error |-> error,
                    inventory |-> IF error THEN <<>> ELSE inventory],
                   IF error THEN <<>>
                   ELSE OfferCalls(Tradelink(id), added, "clash",
                                   [item_name |-> ItemName(id)], addThrows))
    /\ UNCHANGED <<Creds, initPc, Ticks, Cycles, Dedup, alive, answering, accepting>>

\* Incoming offers: the items asked of the account and the items offered.
IncomingOffers ==
    [itemsToGive : SeqsUpTo(AssetIds, MaxItems),
     itemsToReceive : SeqsUpTo(AssetIds, MaxItems)]

\* Variant of ShouldAccept: every incoming offer is accepted.
ShouldAccept_Always(offer) == TRUE

\* Line 335.
ShouldAccept(offer) == Len(offer.itemsToGive) = 0

\* The newOffer listener, lines 334-352.
NewOffer ==
    /\ \E offer \in IncomingOffers :
         IF ShouldAccept(offer)
         THEN /\ accepting' = accepting \cup {offer}
              /\ event' = SteamEvent("newOffer", offer,
                                     <<[op |-> "accept", offer |-> offer]>>)
         ELSE /\ accepting' = accepting
              /\ event' = SteamEvent("newOffer", offer, <<>>)
    /\ UNCHANGED <<Creds, initPc, Ticks, Cycles, Dedup, alive, answering>>

\* The callback of offer.accept, lines 336-350: an error is logged, otherwise
\* the received items are asked for (and logged by their callback).
AcceptCallback ==
    /\ \E offer \in accepting, error \in BOOLEAN :
         /\ accepting' = accepting \ {offer}
         /\ event' = SteamEvent("acceptCallback", [offer |-> offer, error |-> error],
                                IF error THEN <<>>
                                ELSE <<[op |-> "getReceivedItems", offer |-> offer]>>)
    /\ UNCHANGED <<Creds, initPc, Ticks, Cycles, Dedup, alive, answering>>

SteamNext ==
    \/ SendTradeOfferLoaded
    \/ NewOffer
    \/ AcceptCallback

SteamSpec == Init /\ [][SteamNext]_vars

(***************************************************************************)
(* RefreshClashCookies.refreshCookie, for any list of browser cookies      *)
(***************************************************************************)

\* Longest cookie list.
MaxCookies == 3

\* Further cookies: one of a domain that only resembles clash.gg, one of a
\* host under clash.gg with an empty value.
LookalikeCookie ==
    [domain |-> <<"c", "l", "a", "s", "h", "g", "g">>, name |-> "lk", value |-> "7"]
EmptyCookie ==
    [domain |-> <<"a", "p", "i", ".">> \o ClashGG, name |-> "t", value |-> ""]

BrowserCookies == {SessionCookie, CfCookie, SteamCookie, LookalikeCookie, EmptyCookie}

CookieLists == SeqsUpTo(BrowserCookies, MaxCookies)

\* A refreshCookie call whose getCookies call returned a cookie list.
RefreshCookieCall ==
    /\ \E cookies \in CookieLists :
         event' = [task |-> "refreshCookie", cookies |-> cookies,
                   result |-> refreshCookie([failed |-> FALSE, cookies |-> cookies])]
    /\ UNCHANGED <<Creds, initPc, Ticks, Cycles, Dedup, alive, answering, accepting>>

CookieNext == RefreshCookieCall

CookieSpec == Init /\ [][CookieNext]_vars

(***************************************************************************)
(* Properties                                                              *)
(***************************************************************************)

PollTasks == {"checkDeposits", "initCheckDeposits"}

IsSendFor(c, id) == c.op = "sendTradeOffer" /\ c.assetId = AssetId(id)
IsAnswerFor(c, id) == c.op = "answerSale" /\ c.itemID = id
IsTimerFor(c, id) == c.op = "setTimeout" /\ c.id = id

\* The number of calls of each kind that a task made for a listing.
SendsFor(calls, id) ==
    Cardinality({ i \in DOMAIN calls : IsSendFor(calls[i], id) })
AnswersFor(calls, id) ==
    Cardinality({ i \in DOMAIN calls : IsAnswerFor(calls[i], id) })
TimersFor(calls, id) ==
    Cardinality({ i \in DOMAIN calls : IsTimerFor(calls[i], id) })

\* The records of the array a poll task went through.
Records(e) == { e.deposits[i] : i \in DOMAIN e.deposits }

\* A record that line 92 and line 95 let through to the dispatch.
Sellable(d) ==
    d.seller = steamId /\ d.status = "ANSWERED" /\ d.inspect # Undefined

\* C1: while the dedup entry of a listing is live no task calls sendTradeOffer
\* for it, no task calls it twice for one listing, and only stopTracking
\* removes an entry; so between two sendTradeOffer calls for a listing there
\* is a stopTracking of it, however the poll cycles overlap.
C1_NoDispatchWhileTracked ==
    [][\A id \in ListingIds :
          /\ trackSentOffers[id] => SendsFor(event'.calls, id) = 0
          /\ SendsFor(event'.calls, id) <= 1
          /\ trackSentOffers[id] /\ ~trackSentOffers'[id]
                => event'.task = "stopTracking"]_vars

\* A timer cycle went through an ANSWERED listing of the account whose entry
\* was live, and dispatched nothing for it.
C1_Witness ==
    /\ event.task = "checkDeposits"
    /\ \E d \in Records(event) :
         /\ Sellable(d)
         /\ trackSentOffers[d.id]
         /\ SendsFor(event.calls, d.id) = 0

\* C2: over a whole run sendTradeOffer is called at most once per listing:
\* once it has been called for a listing, no later task calls it for that
\* listing again.
C2_AtMostOncePerRun ==
    [][\A id \in ListingIds :
          offers[id] # "none" => SendsFor(event'.calls, id) = 0]_vars

\* C3: no access-token request is issued with an empty session cookie.
C3_NoTokenFetchWithEmptyCookie ==
    \A i \in DOMAIN event.calls :
        event.calls[i].op = "getAccessToken" => event.calls[i].cookie # ""

\* C4: no credential fetch failure is fatal or escapes its step: init never
\* rejects and the process keeps running.
C4_NoFetchFailureIsFatal ==
    alive /\ initPc # "rejected"

\* C5: a failed getCookie or getAccessToken call, in init or on a tick,
\* changes neither credential nor the dedup map.
C5_FailedRefreshKeepsState ==
    [][(event'.failed /\ event'.task \in {"initGetCookie", "cookieRefreshed",
                                          "initGetAccessToken", "tokenRefreshed"})
          => /\ cookie' = cookie
             /\ accessToken' = accessToken
             /\ trackSentOffers' = trackSentOffers]_vars

\* A cookie refresh failed on a tick while a cookie, a token and a dedup
\* entry were stored.
C5_Witness ==
    /\ event.task = "cookieRefreshed" /\ event.failed
    /\ cookie # "" /\ accessToken # ""
    /\ \E id \in ListingIds : trackSentOffers[id]

\* C6: the dedup check, the sendTradeOffer call and the mark run in one
\* task: in no state between two tasks has sendTradeOffer just been called
\* for a listing whose entry is not set.
C6_MarkedBeforeAnyOtherTask ==
    \A id \in ListingIds :
        SendsFor(event.calls, id) > 0 => trackSentOffers[id]

\* A timer cycle dispatched a transfer while another cycle's listings request
\* was still in flight.
C6_Witness ==
    /\ event.task = "checkDeposits"
    /\ inFlight > 0
    /\ \E id \in ListingIds : SendsFor(event.calls, id) = 1

\* C7: a poll task makes no answerSale, sendTradeOffer or setTimeout call for
\* a record whose seller is not the account, and leaves the record's dedup
\* entry and release timers as they were, whatever its status and whether
\* or not an entry is live.
C7_ForeignListingUntouched ==
    [][event'.task \in PollTasks =>
          \A d \in Records(event') :
              d.seller # steamId =>
                  /\ AnswersFor(event'.calls, d.id) = 0
                  /\ SendsFor(event'.calls, d.id) = 0
                  /\ TimersFor(event'.calls, d.id) = 0
                  /\ trackSentOffers'[d.id] = trackSentOffers[d.id]
                  /\ releaseTimers'[d.id] = releaseTimers[d.id]
                  /\ offers'[d.id] = offers[d.id]]_vars

\* A poll task met an ANSWERED record of another seller with no live entry,
\* and acted on the other record of the same array.
C7_Witness ==
    /\ event.task \in PollTasks
    /\ \E d \in Records(event) :
         /\ d.seller = OtherSteamId /\ d.status = "ANSWERED"
         /\ ~trackSentOffers[d.id]
    /\ Len(event.calls) > 0

\* C8: for an ASKED record of the account a poll task calls answerSale once
\* with the record's id, whether or not its entry is live, calls neither
\* sendTradeOffer nor setTimeout for it and leaves its dedup entry and release
\* timers as they were.
C8_AskedIsAnsweredOnly ==
    [][event'.task \in PollTasks =>
          \A d \in Records(event') :
              (d.seller = steamId /\ d.status = "ASKED") =>
                  /\ AnswersFor(event'.calls, d.id) = 1
                  /\ SendsFor(event'.calls, d.id) = 0
                  /\ TimersFor(event'.calls, d.id) = 0
                  /\ trackSentOffers'[d.id] = trackSentOffers[d.id]
                  /\ releaseTimers'[d.id] = releaseTimers[d.id]]_vars

\* A poll task answered an ASKED record of the account whose entry was live.
C8_Witness ==
    /\ event.task \in PollTasks
    /\ \E d \in Records(event) :
         /\ d.seller = steamId /\ d.status = "ASKED"
         /\ trackSentOffers[d.id]
         /\ AnswersFor(event.calls, d.id) = 1

\* A sendTradeOffer call that carries any datum of listing id.
Mentions(c, id) ==
    /\ c.op = "sendTradeOffer"
    /\ \/ c.buyerTradelink \in {Tradelink(id), AssetId(id)}
       \/ c.assetId \in {Tradelink(id), AssetId(id)}
       \/ c.transactionData.item_name = ItemName(id)

\* C9: for an ANSWERED record of the account with no live entry a poll task
\* makes one sendTradeOffer call, with the record's buyerTradelink, its asset
\* id, "clash" and the item name, sets the record's dedup entry and schedules
\* one release for it.
C9_OneDispatchPerSellable ==
    [][event'.task \in PollTasks =>
          \A d \in Records(event') :
              (Sellable(d) /\ ~trackSentOffers[d.id]) =>
                  /\ Cardinality({ i \in DOMAIN event'.calls :
                                      Mentions(event'.calls[i], d.id) }) = 1
                  /\ \E i \in DOMAIN event'.calls :
                        /\ Mentions(event'.calls[i], d.id)
                        /\ event'.calls[i].buyerTradelink = Tradelink(d.id)
                        /\ event'.calls[i].assetId = AssetId(d.id)
                        /\ event'.calls[i].source = "clash"
                        /\ event'.calls[i].transactionData =
                               [item_name |-> ItemName(d.id)]
                  /\ TimersFor(event'.calls, d.id) = 1
                  /\ trackSentOffers'[d.id]
                  /\ releaseTimers'[d.id] = releaseTimers[d.id] + 1]_vars

\* One poll task dispatched the transfers of both listings.
C9_Witness ==
    /\ event.task \in PollTasks
    /\ \A id \in ListingIds :
         /\ SendsFor(event.calls, id) = 1
         /\ trackSentOffers[id]
         /\ releaseTimers[id] = 1

\* A poll task goes through an ANSWERED record of the account whose latest
\* transfer has failed.
RetryCase(d) == Sellable(d) /\ offers[d.id] = "failed"

\* C10 as claimed: the next cycle that observes the listing of a failed
\* transfer as ANSWERED dispatches the transfer again.
C10_RetryAtNextPoll ==
    [][event'.task \in PollTasks =>
          \A d \in Records(event') :
              RetryCase(d) => SendsFor(event'.calls, d.id) = 1]_vars

\* C10 as amended: the failure of a transfer leaves the dedup entry and its
\* release timer in place; the entry goes when the release timer fires; and a
\* cycle that observes the listing as ANSWERED dispatches again exactly when
\* the entry is gone.
C10_RetryAfterRelease ==
    [][/\ \A id \in ListingIds :
            (offers'[id] = "failed" /\ offers[id] # "failed") =>
                /\ trackSentOffers'[id] = trackSentOffers[id]
                /\ releaseTimers'[id] = releaseTimers[id]
       /\ \A id \in ListingIds :
            (event'.task = "stopTracking" /\ releaseTimers'[id] < releaseTimers[id])
                => ~trackSentOffers'[id]
       /\ event'.task \in PollTasks =>
            \A d \in Records(event') :
                RetryCase(d) =>
                    (SendsFor(event'.calls, d.id) = 1 <=> ~trackSentOffers[d.id])]_vars

\* A poll task observed the listing of a failed transfer as ANSWERED while
\* its entry was live, and dispatched nothing.
C10_Witness ==
    /\ event.task \in PollTasks
    /\ \E d \in Records(event) :
         /\ RetryCase(d)
         /\ trackSentOffers[d.id]
         /\ SendsFor(event.calls, d.id) = 0

\* C11: every listings request, init's and the ticks', is issued with a
\* non-empty cookie and a non-empty access token.
C11_PollOnlyWithBothCredentials ==
    \A i \in DOMAIN event.calls :
        event.calls[i].op = "getActiveDeposits"
            => event.calls[i].cookie # "" /\ event.calls[i].accessToken # ""

\* C12: when the release timer of a listing fires, the entry of the listing
\* is gone after it; and with timers that fire, no entry of a running
\* process stays set forever: whenever one is set, it is absent at some
\* later point.
C12_EveryEntryReleased ==
    /\ [][\A id \in ListingIds :
             (event'.task = "stopTracking" /\ event'.calls[1].id = id)
                => ~trackSentOffers'[id]]_vars
    /\ \A id \in ListingIds :
          []<>(~trackSentOffers[id] \/ ~alive)

\* The timer of a listing fired and its entry is gone, after the last poll
\* cycle of the run.
C12_Witness ==
    /\ event.task = "stopTracking"
    /\ ~trackSentOffers[event.calls[1].id]
    /\ polls = MaxPolls /\ inFlight = 0

\* C13: a poll cycle whose listings request failed makes no call, changes
\* neither the dedup map, its timers, the offers nor a credential, and does
\* not reject: the process keeps running and, when the poll is init's, init
\* goes on to start the timers.
C13_FailedPollTakesNoAction ==
    [][(event'.task \in PollTasks /\ event'.failed)
          => /\ event'.calls = <<>>
             /\ trackSentOffers' = trackSentOffers
             /\ releaseTimers' = releaseTimers
             /\ offers' = offers
             /\ cookie' = cookie /\ accessToken' = accessToken
             /\ alive' = alive
             /\ (event'.task = "initCheckDeposits" => initPc' = "done")]_vars

\* The poll awaited by init failed, and init started the timers: a tick's
\* cycle is possible.
C13_Witness ==
    /\ event.task = "initCheckDeposits" /\ event.failed
    /\ initPc = "done" /\ alive
    /\ ENABLED PollTick

\* The records of a response other than d, in their order.
Siblings(deposits, d) == SelectSeq(deposits, LAMBDA x : x # d)

\* C14: when the handler of a record of a poll cycle throws, the cycle does
\* to the dedup map, the timers and the offers, and calls, exactly what it
\* would with that record left out of the response, and checkDeposits does
\* not reject.
C14_PerListingIsolation ==
    [][\A d \in Records(event') :
          (event'.task \in PollTasks /\ Throws(d, trackSentOffers))
             => LET without ==
                      forEach(HandlerState, Siblings(event'.deposits, d), 1)
                IN  /\ event'.calls = without.calls
                    /\ trackSentOffers' = without.track
                    /\ releaseTimers' = without.timers
                    /\ offers' = without.offers
                    /\ answering' = without.answering
                    /\ alive' = alive
                    /\ initPc' # "rejected"]_vars

\* A cycle met a record whose handler throws, first in the array, and acted
\* on the record after it.
C14_Witness ==
    /\ event.task = "checkDeposits"
    /\ Len(event.deposits) = 2
    /\ \/ event.deposits[1].seller = Undefined
       \/ event.deposits[1].inspect = Undefined /\ offers[event.deposits[1].id] = "none"
    /\ event.calls # <<>>

\* C15: a confirm request that fails makes no call and changes neither a
\* credential, the dedup map, its timers, the offers nor the cycles; and
\* every poll cycle that finds a listing of the account in status ASKED
\* sends one confirm request for it, whatever became of earlier ones.
C15_FailedAnswerRetriedNextCycle ==
    [][/\ (event'.task = "answerSale" /\ event'.failed)
            => /\ event'.calls = <<>>
               /\ cookie' = cookie /\ accessToken' = accessToken
               /\ trackSentOffers' = trackSentOffers
               /\ releaseTimers' = releaseTimers
               /\ offers' = offers
               /\ polls' = polls /\ inFlight' = inFlight
               /\ alive' = alive /\ initPc' = initPc
       /\ \A d \in Records(event') :
             (event'.task \in PollTasks /\ d.seller = steamId /\ d.status = "ASKED")
                => AnswersFor(event'.calls, d.id) = 1]_vars

\* A confirm request failed while the response of a later cycle is awaited.
C15_Witness ==
    /\ event.task = "answerSale" /\ event.failed
    /\ inFlight > 0 /\ alive

\* C16: every request carries the credentials stored when it is issued: the
\* token request the cookie, the listings and the confirm request the cookie
\* and the access token.
C16_CredentialsReadAtCallTime ==
    \A i \in DOMAIN event.calls :
        LET c == event.calls[i]
        IN  /\ c.op = "getAccessToken" => c.cookie = cookie
            /\ c.op \in {"getActiveDeposits", "answerSale"}
                  => c.cookie = cookie /\ c.accessToken = accessToken

\* A cycle sends a confirm request with a cookie and a token that were both
\* refreshed.
C16_Witness ==
    /\ event.task = "checkDeposits"
    /\ \E i \in DOMAIN event.calls :
         /\ event.calls[i].op = "answerSale"
         /\ event.calls[i].cookie = cookie /\ cookie # ""
         /\ event.calls[i].accessToken = accessToken /\ accessToken # ""

\* C17: a listing has one pending release timer while its dedup entry is
\* set and none otherwise.
C17_OneTimerPerEntry ==
    \A id \in ListingIds :
        releaseTimers[id] = IF trackSentOffers[id] THEN 1 ELSE 0

\* The timer of one listing fired and removed its entry while the entry of
\* the other listing stays set, with its own timer pending.
C17_Witness ==
    /\ event.task = "stopTracking"
    /\ \E id, other \in ListingIds :
         /\ event.calls[1].id = id /\ other # id
         /\ ~trackSentOffers[id] /\ releaseTimers[id] = 0
         /\ trackSentOffers[other] /\ releaseTimers[other] = 1

\* The items handed to offer.addMyItem by a task.
AddedItems(calls) ==
    { calls[i].item : i \in { j \in DOMAIN calls : calls[j].op = "addMyItem" } }

\* C18: when the inventory has loaded, every item added to the offer is the
\* inventory item with the requested asset id, and offer.send is called only
\* on an offer that holds it.
C18_OfferHoldsRequestedItem ==
    (event.task = "sendTradeOffer" /\ ~event.args.error)
        => /\ \A item \in AddedItems(event.calls) :
                /\ item.assetid = event.args.assetId
                /\ \E i \in DOMAIN event.args.inventory : event.args.inventory[i] = item
           /\ (\E i \in DOMAIN event.calls : event.calls[i].op = "send")
                => AddedItems(event.calls) # {}

\* C19: accept is called on an incoming offer only when the offer asks for
\* no item of the account: no pending accept, no accept call and no accept
\* callback belongs to an offer with an item to give.
C19_AcceptsOnlyGifts ==
    /\ \A offer \in accepting : Len(offer.itemsToGive) = 0
    /\ event.task = "newOffer"
          => \A i \in DOMAIN event.calls :
                event.calls[i].op = "accept" => Len(event.args.itemsToGive) = 0
    /\ event.task = "acceptCallback" => Len(event.args.offer.itemsToGive) = 0

\* An offer asking for an item arrived while the accept of an earlier offer
\* was pending, and no call was made for it.
C19_Witness ==
    /\ event.task = "newOffer"
    /\ Len(event.args.itemsToGive) > 0
    /\ event.calls = <<>>
    /\ accepting # {}

\* The text the claim describes: name=value of the first cookie of a
\* clash.gg domain, then "; " and the text of the rest when the rest holds
\* another such cookie.
RECURSIVE ExpectedCookieString(_)
ExpectedCookieString(cookies) ==
    IF cookies = <<>> THEN ""
    ELSE LET first == Head(cookies)
             rest == Tail(cookies)
             more == \E i \in DOMAIN rest : Includes(rest[i].domain, ClashGG)
         IN  IF Includes(first.domain, ClashGG)
             THEN first.name \o "=" \o first.value
                      \o (IF more THEN "; " \o ExpectedCookieString(rest) ELSE "")
             ELSE ExpectedCookieString(rest)

\* C20: for every cookie list refreshCookie returns the cookies of a domain
\* containing clash.gg, in their order, as name=value joined by "; ", with
\* no separator before the first or after the last; the empty string when
\* there is none.
C20_CookieStringIsClashCookies ==
    event.task = "refreshCookie"
        => /\ ~event.result.threw
           /\ event.result.value = ExpectedCookieString(event.cookies)

\* Two clash.gg cookies with a steam cookie between them, the last with an
\* empty value.
C20_Witness ==
    /\ event.task = "refreshCookie"
    /\ event.cookies = <<SessionCookie, SteamCookie, EmptyCookie>>
    /\ event.result.value = "sid=1; t="

====
